---- MODULE Spec2Model ----
(***************************************************************************)
(* tarsnap-old-archives: the catalog parser, the tiered retention          *)
(* selection and the batch deletion executor of main(), as a state machine.*)
(* Time is counted in hours since 1970-01-01 00:00:00 UTC.                 *)
(***************************************************************************)
EXTENDS Integers, Sequences, FiniteSets, TLC

\* ------------------------------------------------------------------ bounds
\* longest enumerated catalog
MaxLen == 3
\* the archives named 1..MaxGone may be listed in the already-deleted file
MaxGone == 2
\* length of the one long catalog, which fills three batches
BulkLen == 202

\* ------------------------------------------------------- program constants
\* j < initialIndex+100
BatchSize == 100
\* semaphore.New(1)
SemSize == 1
MonthWindow == 30 * 24
WeekWindow == 7 * 24

\* ------------------------------------------------- time.Date(y, m, d, 0...)
IsLeap(y) == (y % 4 = 0 /\ y % 100 # 0) \/ y % 400 = 0

LeapsThrough(y) == (y \div 4) - (y \div 100) + (y \div 400)

DaysBefore == <<0, 31, 59, 90, 120, 151, 181, 212, 243, 273, 304, 334>>

\* time.Date normalises a month outside 1..12 into the neighbouring year and
\* lets a day past the end of the month run into the next month.
DateHours(y, m, d) ==
    LET yy == y + ((m - 1) \div 12)
        mm == ((m - 1) % 12) + 1
        days == 365 * (yy - 1970) + (LeapsThrough(yy - 1) - LeapsThrough(1969))
                + DaysBefore[mm]
                + (IF IsLeap(yy) /\ mm >= 3 THEN 1 ELSE 0)
                + (d - 1)
    IN  24 * days

TwoYearsAgo(n) == DateHours(n.year - 2, n.month, n.day)

TwoMonthsAgo(n) == DateHours(n.year, n.month - 2, n.day)

\* the wall-clock days the run may start on (the second makes month - 2
\* leave the year and the day overflow the month)
Nows == { [year |-> 2026, month |-> 11, day |-> 6],
          [year |-> 2025, month |-> 1, day |-> 31] }

\* --------------------------------------------------------------- the inputs
\* archive names are the decimal numerals "1", "2", ...
Name(k) == ToString(k)

\* timestamps around the two thresholds
Stamps(n) ==
    { TwoYearsAgo(n) - MonthWindow - 1,
      TwoYearsAgo(n) - WeekWindow - 1,
      TwoYearsAgo(n) - 1,
      TwoMonthsAgo(n) - 2 * WeekWindow - 1,
      TwoMonthsAgo(n) - WeekWindow - 1,
      TwoMonthsAgo(n) - 1,
      TwoMonthsAgo(n) + 1 }

\* a catalog line "<name>\t<timestamp>": tabs is its number of tab
\* characters, parses whether the timestamp segment is in the fixed layout,
\* reads whether the scanner delivers the line (FALSE: the read fails there)
Line(nm, d) ==
    [name |-> nm, date |-> d, tabs |-> 1, parses |-> TRUE, reads |-> TRUE]

\* the timestamp columns of the enumerated catalogs: every ascending column
\* of up to MaxLen timestamps, and the same column in descending order
Columns(n) ==
    UNION { LET asc == { f \in [1..len -> Stamps(n)] :
                           \A k \in 1..(len - 1) : f[k] <= f[k + 1] }
            IN  asc \cup { [k \in 1..len |-> f[len + 1 - k]] : f \in asc }
            : len \in 0..MaxLen }

\* the k-th line of a catalog names the archive Name(k)
GoodCatalogs(n) ==
    { [k \in 1..Len(f) |-> Line(Name(k), f[k])] : f \in Columns(n) }

Defects == { [tabs |-> 0, parses |-> TRUE, reads |-> TRUE],
             [tabs |-> 2, parses |-> TRUE, reads |-> TRUE],
             [tabs |-> 1, parses |-> FALSE, reads |-> TRUE],
             [tabs |-> 1, parses |-> TRUE, reads |-> FALSE] }

BadCatalogs(n) ==
    { [k \in 1..len |->
         IF k = at
         THEN [name |-> Name(k), date |-> TwoYearsAgo(n) - MonthWindow - 1,
               tabs |-> df.tabs, parses |-> df.parses, reads |-> df.reads]
         ELSE Line(Name(k), TwoYearsAgo(n) - MonthWindow - 1)]
      : <<len, at, df>> \in { t \in (1..MaxLen) \X (1..MaxLen) \X Defects : t[2] <= t[1] } }

\* BulkLen archives one hour apart, all more than two years and a month old
BulkCatalog(n) ==
    [k \in 1..BulkLen |-> Line(Name(k), TwoYearsAgo(n) - MonthWindow - 1 - BulkLen + k)]

\* the -archive-regex, given by the names it rejects: it matches every
\* name, or every name but "1"
Patterns == { {}, {Name(1)} }

\* the contents the -already-deleted-file may have
DeletedLists == SUBSET { Name(k) : k \in 1..MaxGone }

VARIABLES
    dryRun,            \* flag -dry-run
    multi,             \* flag -multi
    rx,                \* the compiled -archive-regex: the names it rejects
    alreadyDeletedMap, \* the names of -already-deleted-file
    now,               \* time.Now() (year, month, day)
    input,             \* the lines of the catalog
    pc,                \* where main() is
    items,             \* getArchiveItems' result
    matchedItems,
    discardItems,
    currentIndex,      \* 0-based, as in the code
    periodEnd,
    i,                 \* the executor's index into discardItems, 0-based
    args,              \* the names of the request being formed
    sem,               \* free slots of the semaphore
    tasks,             \* the goroutines started, in dispatch order
    cancelled,         \* cancel() was called on ctx
    exit,              \* "running", "exit0" or "exit1"
    output             \* the lines printed

vars == <<dryRun, multi, rx, alreadyDeletedMap, now, input, pc, items,
          matchedItems, discardItems, currentIndex, periodEnd, i, args, sem,
          tasks, cancelled, exit, output>>

flags == <<dryRun, multi, rx, alreadyDeletedMap, now, input>>

Init ==
    /\ now \in Nows
    /\ dryRun \in BOOLEAN
    /\ multi \in BOOLEAN
    /\ dryRun => multi
    /\ rx \in Patterns
    /\ alreadyDeletedMap \in DeletedLists
    \* the name filter and the already-deleted list are set one at a time
    /\ rx = {} \/ alreadyDeletedMap = {}
    /\ \/ input \in GoodCatalogs(now) \cup BadCatalogs(now)
       \/ multi /\ input = BulkCatalog(now)
    /\ pc = "parse"
    /\ items = <<>>
    /\ matchedItems = <<>>
    /\ discardItems = <<>>
    /\ currentIndex = 0
    /\ periodEnd = 0
    /\ i = 0
    /\ args = <<>>
    /\ sem = SemSize
    /\ tasks = <<>>
    /\ cancelled = FALSE
    /\ exit = "running"
    /\ output = <<>>

\* ------------------------------------------------- getArchiveItems (parser)
\* variant: the error of time.Parse is dropped
FirstBadLineUnparsed(lines) ==
    LET bad == { k \in 1..Len(lines) : ~lines[k].reads \/ lines[k].tabs # 1 }
    IN  IF bad = {} THEN 0 ELSE CHOOSE k \in bad : \A m \in bad : k <= m

\* the first line, if any, on which getArchiveItems returns an error
FirstBadLine(lines) ==
    LET bad == { k \in 1..Len(lines) :
                   ~lines[k].reads \/ lines[k].tabs # 1 \/ ~lines[k].parses }
    IN  IF bad = {} THEN 0 ELSE CHOOSE k \in bad : \A m \in bad : k <= m

\* the orders in which the lines of one timestamp may come out
TieOrders(lines, d) ==
    LET G == { k \in 1..Len(lines) : lines[k].date = d }
    IN  { [p \in 1..Cardinality(G) |->
             [Name |-> lines[s[p]].name, Date |-> lines[s[p]].date]]
          : s \in { t \in [1..Cardinality(G) -> G] :
                      \A a, b \in 1..Cardinality(G) : a # b => t[a] # t[b] } }

\* variant: the records are returned in the order of the lines
SortedOrdersUnsorted(lines, D) ==
    { [p \in 1..Len(lines) |-> [Name |-> lines[p].name, Date |-> lines[p].date]] }

\* sort.Slice with less = Date.Before: the result is ordered by date;
\* sort.Slice makes no promise about the order of records of equal date.
\* D is a set of timestamps, split at its median.
RECURSIVE SortedOrders(_, _)
SortedOrders(lines, D) ==
    IF D = {} THEN { <<>> }
    ELSE IF Cardinality(D) = 1 THEN TieOrders(lines, CHOOSE d \in D : TRUE)
    ELSE LET pivot == CHOOSE d \in D :
                        Cardinality({ e \in D : e < d }) = Cardinality(D) \div 2
         IN  { lo \o hi : lo \in SortedOrders(lines, { e \in D : e < pivot }),
                          hi \in SortedOrders(lines, { e \in D : e >= pivot }) }

GetArchiveItems ==
    /\ exit = "running" /\ pc = "parse"
    /\ IF FirstBadLine(input) # 0
       THEN \* log.Fatal(err)
            /\ exit' = "exit1"
            /\ UNCHANGED <<pc, items>>
       ELSE /\ items' \in SortedOrders(input, { input[k].date : k \in 1..Len(input) })
            /\ pc' = "match"
            /\ UNCHANGED exit
    /\ UNCHANGED <<flags, matchedItems, discardItems, currentIndex, periodEnd,
                   i, args, sem, tasks, cancelled, output>>

\* ------------------------------------------------------------ name filter
MatchString(pattern, name) == name \notin pattern

MatchItems ==
    /\ exit = "running" /\ pc = "match"
    /\ matchedItems' = SelectSeq(items, LAMBDA it : MatchString(rx, it.Name))
    /\ pc' = "outer"
    /\ UNCHANGED <<flags, items, discardItems, currentIndex, periodEnd, i, args,
                   sem, tasks, cancelled, exit, output>>

\* ------------------------------------------------------ retention selection
\* dryRunPrint: prints only in dry-run mode
DryRunPrint(d, kind, name) ==
    IF d THEN <<[kind |-> kind, text |-> <<name>>]>> ELSE <<>>

\* fmt.Println
Println(kind, text) == <<[kind |-> kind, text |-> text]>>

\* variant: the tier is taken from the anchor's own age
PeriodByAnchorAge(periodStart, n) ==
    IF periodStart < TwoYearsAgo(n) THEN MonthWindow
    ELSE IF periodStart < TwoMonthsAgo(n) THEN WeekWindow
    ELSE 0

\* variant: the one-per-week branch is missing
PeriodMonthOnly(periodStart, n) ==
    IF periodStart + MonthWindow < TwoYearsAgo(n) THEN MonthWindow ELSE 0

\* variant: the one-per-month branch is missing
PeriodWeekOnly(periodStart, n) ==
    IF periodStart + WeekWindow < TwoMonthsAgo(n) THEN WeekWindow ELSE 0

\* the length of the period an anchor opens; 0 when it opens none
Period(periodStart, n) ==
    IF periodStart + MonthWindow < TwoYearsAgo(n) THEN MonthWindow
    ELSE IF periodStart + WeekWindow < TwoMonthsAgo(n) THEN WeekWindow
    ELSE 0

Current == matchedItems[currentIndex + 1]

\* variant: the cursor is left where it is
IncStuck(idx) == idx

\* currentIndex++
Inc(idx) == idx + 1

\* variant: the already-deleted check of the inner loop is missing
InnerBranchUnchecked(item, R, pe) ==
    IF item.Date < pe THEN "discard" ELSE "break"

\* variant: an item dated exactly at the end of the period is discarded too
InnerBranchClosed(item, R, pe) ==
    IF item.Name \in R THEN "gone"
    ELSE IF item.Date <= pe THEN "discard"
    ELSE "break"

\* the branch one iteration of the inner loop takes on an item: the
\* already-deleted check comes first, then Date.Before(periodEnd)
InnerBranch(item, R, pe) ==
    IF item.Name \in R THEN "gone"
    ELSE IF item.Date < pe THEN "discard"
    ELSE "break"

\* one iteration of the outer loop up to the inner loop
OuterStep ==
    /\ exit = "running" /\ pc = "outer"
    /\ currentIndex < Len(matchedItems)
    /\ output' = output \o DryRunPrint(dryRun, "keep1", Current.Name)
    /\ LET periodStart == Current.Date
           w == Period(periodStart, now)
       IN  IF w = 0
           THEN /\ currentIndex' = Inc(Inc(currentIndex))
                /\ UNCHANGED <<pc, periodEnd>>
           ELSE /\ currentIndex' = Inc(currentIndex)
                /\ periodEnd' = periodStart + w
                /\ pc' = "inner"
    /\ UNCHANGED <<flags, items, matchedItems, discardItems, i, args, sem,
                   tasks, cancelled, exit>>

InnerGone ==
    /\ exit = "running" /\ pc = "inner"
    /\ currentIndex < Len(matchedItems)
    /\ InnerBranch(Current, alreadyDeletedMap, periodEnd) = "gone"
    /\ output' = output \o Println("gone", <<Current.Name>>)
    /\ currentIndex' = Inc(currentIndex)
    /\ UNCHANGED <<flags, pc, items, matchedItems, discardItems, periodEnd, i,
                   args, sem, tasks, cancelled, exit>>

InnerDiscard ==
    /\ exit = "running" /\ pc = "inner"
    /\ currentIndex < Len(matchedItems)
    /\ InnerBranch(Current, alreadyDeletedMap, periodEnd) = "discard"
    /\ output' = output \o DryRunPrint(dryRun, "discard", Current.Name)
    /\ discardItems' = Append(discardItems, Current)
    /\ currentIndex' = Inc(currentIndex)
    /\ UNCHANGED <<flags, pc, items, matchedItems, periodEnd, i, args, sem,
                   tasks, cancelled, exit>>

\* break: the item outside the period is the next anchor
InnerBreak ==
    /\ exit = "running" /\ pc = "inner"
    /\ currentIndex < Len(matchedItems)
    /\ InnerBranch(Current, alreadyDeletedMap, periodEnd) = "break"
    /\ pc' = "outer"
    /\ UNCHANGED <<flags, items, matchedItems, discardItems, currentIndex,
                   periodEnd, i, args, sem, tasks, cancelled, exit, output>>

InnerEnd ==
    /\ exit = "running" /\ pc = "inner"
    /\ ~(currentIndex < Len(matchedItems))
    /\ pc' = "outer"
    /\ UNCHANGED <<flags, items, matchedItems, discardItems, currentIndex,
                   periodEnd, i, args, sem, tasks, cancelled, exit, output>>

\* variant: the inner loop is left at an already-deleted item too
InnerStopAtGone(m, R, idx, pe) ==
    LET stops == { k \in idx..(Len(m) - 1) : InnerBranch(m[k + 1], R, pe) # "discard" }
    IN  IF stops = {} THEN Len(m)
        ELSE CHOOSE k \in stops : \A j \in stops : k <= j

\* the inner loop from cursor idx with the period ending at pe: the cursor
\* at which it stops, the first item on which it breaks or the end of m
InnerStop(m, R, idx, pe) ==
    LET stops == { k \in idx..(Len(m) - 1) : InnerBranch(m[k + 1], R, pe) = "break" }
    IN  IF stops = {} THEN Len(m)
        ELSE CHOOSE k \in stops : \A j \in stops : k <= j

\* the selection loops as a function of the matched items m, the
\* already-deleted names R and the clock n: the items appended to
\* discardItems by the outer loop from cursor idx on
RECURSIVE SelectFrom(_, _, _, _)
SelectFrom(m, R, n, idx) ==
    IF ~(idx < Len(m)) THEN <<>>
    ELSE LET periodStart == m[idx + 1].Date
             w == Period(periodStart, n)
         IN  IF w = 0
             THEN SelectFrom(m, R, n, Inc(Inc(idx)))
             ELSE LET pe == periodStart + w
                      stop == InnerStop(m, R, Inc(idx), pe)
                  IN  SelectSeq(SubSeq(m, Inc(idx) + 1, stop),
                                LAMBDA it : InnerBranch(it, R, pe) = "discard")
                      \o SelectFrom(m, R, n, stop)

Selection(m, R, n) == SelectFrom(m, R, n, 0)

\* variant: the dry-run check is missing
DryRunIgnored(d) == FALSE

\* if *dryRun { return }
DryRunReturns(d) == d

\* the outer loop ends; a dry run returns here, a live run creates the
\* semaphore and enters the executor
SelectionDone ==
    /\ exit = "running" /\ pc = "outer"
    /\ ~(currentIndex < Len(matchedItems))
    /\ IF DryRunReturns(dryRun)
       THEN exit' = "exit0" /\ pc' = "return"
       ELSE pc' = "loop" /\ UNCHANGED exit
    /\ UNCHANGED <<flags, items, matchedItems, discardItems, currentIndex,
                   periodEnd, i, args, sem, tasks, cancelled, output>>

\* ------------------------------------------------------- deletion executor
Min(a, b) == IF a < b THEN a ELSE b

\* the inner for-loop of the multi branch over discardItems[lo..hi-1]
\* (0-based): a name of the already-deleted map is printed "gone" and
\* skipped, every other name is appended after a "-f" and counted into i
MultiScan(lo, hi, acc) ==
    LET window == SubSeq(discardItems, lo + 1, hi)
        taken == SelectSeq(window, LAMBDA it : it.Name \notin alreadyDeletedMap)
        skipped == SelectSeq(window, LAMBDA it : it.Name \in alreadyDeletedMap)
    IN  [acc EXCEPT
           !.args = @ \o [p \in 1..(2 * Len(taken)) |->
                            IF p % 2 = 1 THEN "-f" ELSE taken[p \div 2].Name],
           !.i = @ + Len(taken),
           !.out = @ \o [p \in 1..Len(skipped) |->
                           [kind |-> "gone", text |-> <<skipped[p].Name>>]]]

\* variant: i is advanced by one less than the names taken
FormBatchOverlap(idx) ==
    LET b == IF multi
             THEN MultiScan(idx, Min(idx + BatchSize, Len(discardItems)),
                            [args |-> <<"-d">>, i |-> idx, out |-> <<>>, again |-> FALSE])
             ELSE [args |-> <<"-d", "-f", discardItems[idx + 1].Name>>, i |-> idx + 1,
                   out |-> <<>>, again |-> FALSE]
    IN  [b EXCEPT !.i = IF @ - 1 > idx THEN @ - 1 ELSE idx + 1]

\* variant: i is not advanced
FormBatchStuck(idx) ==
    LET fresh == [args |-> <<"-d">>, i |-> idx, out |-> <<>>, again |-> FALSE]
        b == IF multi
             THEN MultiScan(idx, Min(idx + BatchSize, Len(discardItems)), fresh)
             ELSE [fresh EXCEPT !.args = @ \o <<"-f", discardItems[idx + 1].Name>>]
    IN  [b EXCEPT !.i = idx]

\* variant: the multi branch takes every remaining name
FormBatchNoLimit(idx) ==
    LET fresh == [args |-> <<"-d">>, i |-> idx, out |-> <<>>, again |-> FALSE]
    IN  IF multi
        THEN MultiScan(idx, Len(discardItems), fresh)
        ELSE [fresh EXCEPT !.args = @ \o <<"-f", discardItems[idx + 1].Name>>,
                           !.i = @ + 1]

\* one pass over the body of the dispatch loop before s.Acquire(): the
\* arguments of the request, the new value of i, the lines printed, and
\* whether the body ended in `continue`
FormBatch(idx) ==
    LET fresh == [args |-> <<"-d">>, i |-> idx, out |-> <<>>, again |-> FALSE]
    IN  IF multi
        THEN MultiScan(idx, Min(idx + BatchSize, Len(discardItems)), fresh)
        ELSE LET name == discardItems[idx + 1].Name
             IN  IF name \in alreadyDeletedMap
                 THEN [fresh EXCEPT !.out = Println("gone", <<name>>),
                                    !.again = TRUE]
                 ELSE [fresh EXCEPT !.args = @ \o <<"-f", name>>, !.i = @ + 1]

MainForm ==
    /\ exit = "running" /\ pc = "loop"
    /\ i < Len(discardItems)
    /\ LET b == FormBatch(i)
       IN  /\ args' = b.args
           /\ i' = b.i
           /\ output' = output \o b.out
           /\ pc' = IF b.again THEN "loop" ELSE "acquire"
    /\ UNCHANGED <<flags, items, matchedItems, discardItems, currentIndex,
                   periodEnd, sem, tasks, cancelled, exit>>

\* variant: Acquire never blocks
AcquireNeverBlocks(s) == TRUE

\* s.Acquire() returns only when a slot is free
CanAcquire(s) == s > 0

MainAcquire ==
    /\ exit = "running" /\ pc = "acquire"
    /\ CanAcquire(sem)
    /\ sem' = sem - 1
    /\ pc' = "go"
    /\ UNCHANGED <<flags, items, matchedItems, discardItems, currentIndex,
                   periodEnd, i, args, tasks, cancelled, exit, output>>

NoResult == [err |-> FALSE, buf |-> ""]

\* go func(args []string) {...}(args)
MainGo ==
    /\ exit = "running" /\ pc = "go"
    /\ tasks' = Append(tasks, [args |-> args, pc |-> "spawned", started |-> FALSE,
                               result |-> NoResult, k |-> 2])
    /\ pc' = "loop"
    /\ UNCHANGED <<flags, items, matchedItems, discardItems, currentIndex,
                   periodEnd, i, args, sem, cancelled, exit, output>>

\* the dispatch loop is over and main returns: the process ends, whatever
\* the goroutines are doing
MainReturn ==
    /\ exit = "running" /\ pc = "loop"
    /\ ~(i < Len(discardItems))
    /\ exit' = "exit0"
    /\ UNCHANGED <<flags, pc, items, matchedItems, discardItems, currentIndex,
                   periodEnd, i, args, sem, tasks, cancelled, output>>

\* ------------------------------------------------------------ worker tasks
\* the names a request carries: args[2], args[4], ... (0-based)
NamesOf(a) == { a[n] : n \in { m \in 1..Len(a) : m >= 3 /\ m % 2 = 1 } }

\* what the deleter may answer to a request: success, a failure whose
\* output reports a missing archive, or any other failure
Answers ==
    { [err |-> FALSE, buf |-> ""],
      [err |-> TRUE, buf |-> "Archive does not exist"],
      [err |-> TRUE, buf |-> "other failure"] }

\* variant: every failure is taken for a missing archive
AnyFailureIsMissing(buf) == TRUE

\* strings.Contains(buf.String(), "Archive does not exist")
ArchiveDoesNotExist(buf) == buf = "Archive does not exist"

\* cmd.Run() begins: exec.CommandContext starts no process when ctx is
\* already cancelled and returns the context's error
TaskRun(r) ==
    /\ exit = "running"
    /\ tasks[r].pc = "spawned"
    /\ tasks' = [tasks EXCEPT ![r] =
                   IF cancelled
                   THEN [@ EXCEPT !.pc = "returned",
                                  !.result = [err |-> TRUE, buf |-> ""]]
                   ELSE [@ EXCEPT !.pc = "running", !.started = TRUE]]
    /\ UNCHANGED <<flags, pc, items, matchedItems, discardItems, currentIndex,
                   periodEnd, i, args, sem, cancelled, exit, output>>

\* cmd.Run() returns with the deleter's answer
BackendAnswer(r) ==
    /\ exit = "running"
    /\ tasks[r].pc = "running"
    /\ \E ans \in Answers :
         tasks' = [tasks EXCEPT ![r] = [@ EXCEPT !.pc = "returned", !.result = ans]]
    /\ UNCHANGED <<flags, pc, items, matchedItems, discardItems, currentIndex,
                   periodEnd, i, args, sem, cancelled, exit, output>>

\* variant: the `return` after the gone line is missing and the task falls
\* through to the "deleted" lines
GoneReportFallsThrough(a) ==
    Println("gone", a)
    \o [p \in 1..((Len(a) - 1) \div 2) |-> [kind |-> "deleted", text |-> <<a[2 * p + 1]>>]]

\* what the task prints when the request failed with "Archive does not exist"
GoneReport(a) == Println("gone", a)

\* err != nil, archive does not exist: print, return (the deferred
\* s.Release() runs)
TaskGone(r) ==
    /\ exit = "running"
    /\ tasks[r].pc = "returned"
    /\ tasks[r].result.err /\ ArchiveDoesNotExist(tasks[r].result.buf)
    /\ output' = output \o GoneReport(tasks[r].args)
    /\ tasks' = [tasks EXCEPT ![r].pc = "done"]
    /\ sem' = sem + 1
    /\ UNCHANGED <<flags, pc, items, matchedItems, discardItems, currentIndex,
                   periodEnd, i, args, cancelled, exit>>

\* err != nil, any other failure: cancel()
TaskCancel(r) ==
    /\ exit = "running"
    /\ tasks[r].pc = "returned"
    /\ tasks[r].result.err /\ ~ArchiveDoesNotExist(tasks[r].result.buf)
    /\ cancelled' = TRUE
    /\ tasks' = [tasks EXCEPT ![r].pc = "fatal"]
    /\ UNCHANGED <<flags, pc, items, matchedItems, discardItems, currentIndex,
                   periodEnd, i, args, sem, exit, output>>

\* io.Copy(os.Stderr, buf); log.Fatal(err): the process exits with status 1
\* and no deferred call runs
TaskFatal(r) ==
    /\ exit = "running"
    /\ tasks[r].pc = "fatal"
    /\ exit' = "exit1"
    /\ UNCHANGED <<flags, pc, items, matchedItems, discardItems, currentIndex,
                   periodEnd, i, args, sem, tasks, cancelled, output>>

\* err == nil: for i := 2; i < len(args); i += 2 { Println("deleted", args[i]) }
TaskPrint(r) ==
    /\ exit = "running"
    /\ tasks[r].pc = "returned"
    /\ ~tasks[r].result.err
    /\ tasks[r].k < Len(tasks[r].args)
    /\ output' = output \o Println("deleted", <<tasks[r].args[tasks[r].k + 1]>>)
    /\ tasks' = [tasks EXCEPT ![r].k = @ + 2]
    /\ UNCHANGED <<flags, pc, items, matchedItems, discardItems, currentIndex,
                   periodEnd, i, args, sem, cancelled, exit>>

\* the loop is over, the task returns (the deferred s.Release() runs)
TaskReturn(r) ==
    /\ exit = "running"
    /\ tasks[r].pc = "returned"
    /\ ~tasks[r].result.err
    /\ ~(tasks[r].k < Len(tasks[r].args))
    /\ tasks' = [tasks EXCEPT ![r].pc = "done"]
    /\ sem' = sem + 1
    /\ UNCHANGED <<flags, pc, items, matchedItems, discardItems, currentIndex,
                   periodEnd, i, args, cancelled, exit, output>>

Next ==
    \/ GetArchiveItems
    \/ MatchItems
    \/ OuterStep
    \/ InnerGone
    \/ InnerDiscard
    \/ InnerBreak
    \/ InnerEnd
    \/ SelectionDone
    \/ MainForm
    \/ MainAcquire
    \/ MainGo
    \/ MainReturn
    \/ \E r \in 1..Len(tasks) : TaskRun(r)
    \/ \E r \in 1..Len(tasks) : BackendAnswer(r)
    \/ \E r \in 1..Len(tasks) : TaskGone(r)
    \/ \E r \in 1..Len(tasks) : TaskCancel(r)
    \/ \E r \in 1..Len(tasks) : TaskFatal(r)
    \/ \E r \in 1..Len(tasks) : TaskPrint(r)
    \/ \E r \in 1..Len(tasks) : TaskReturn(r)

Spec == Init /\ [][Next]_vars

\* ================================================================ properties
InExecutor == pc \in {"loop", "acquire", "go"}

SelectionOver == InExecutor \/ pc = "return"

Tasks == 1..Len(tasks)

\* the request failed and the output reports a missing archive
GoneFailed(r) ==
    tasks[r].result.err /\ tasks[r].result.buf = "Archive does not exist"

\* the request failed for another reason
OtherFailed(r) ==
    tasks[r].result.err /\ tasks[r].result.buf # "Archive does not exist"

MultiName(r) == Len(tasks[r].args) >= 5

Lines(kind, text) ==
    { p \in 1..Len(output) : output[p].kind = kind /\ output[p].text = text }

DiscardNames == { discardItems[p].Name : p \in 1..Len(discardItems) }

Classifications(nm) ==
    Cardinality(Lines("deleted", <<nm>>))
    + Cardinality(Lines("gone", <<nm>>))
    + Cardinality({ r \in Tasks : nm \in NamesOf(tasks[r].args)
                                  /\ Lines("gone", tasks[r].args) # {} })
    + Cardinality({ r \in Tasks : nm \in NamesOf(tasks[r].args)
                                  /\ tasks[r].pc = "fatal" /\ exit = "exit1" })

\* C2 (as claimed): when a live run has ended, no dispatched request is
\* unresolved and every name that was dispatched has exactly one terminal
\* classification; when it ended normally, so has every name of the discard
\* sequence.
C2_EveryNameClassifiedAtExit ==
    (exit # "running" /\ InExecutor) =>
       /\ \A r \in Tasks :
             /\ tasks[r].pc \in {"done", "fatal"}
             /\ \A nm \in NamesOf(tasks[r].args) : Classifications(nm) = 1
       /\ exit = "exit0" => \A nm \in DiscardNames : Classifications(nm) = 1

\* ---------------------------------------------------------------------- C3
\* C3: at most one delete request is in flight, and a request is started
\* only when every request dispatched before it has resolved and its task
\* has ended.
C3_OneRequestInFlight ==
    /\ Cardinality({ r \in Tasks : tasks[r].pc = "running" }) <= 1
    /\ \A r, q \in Tasks : (q < r /\ tasks[r].started) => tasks[q].pc = "done"

\* a second request is in flight after the first one has resolved
C3_Witness ==
    /\ Len(tasks) >= 2
    /\ tasks[1].pc = "done"
    /\ tasks[2].pc = "running"

\* ---------------------------------------------------------------------- C4
StartedRequests == { r \in Tasks : tasks[r].started }

\* C4: once a request has failed for a reason other than "archive does not
\* exist", no step starts a request or dispatches a batch, and the lines
\* already printed and the results of the other tasks stay as they are.
C4_NothingStartsAfterFatalFailure ==
    [][ (\E r \in Tasks : OtherFailed(r)) =>
           /\ StartedRequests' = StartedRequests
           /\ Len(tasks') = Len(tasks)
           /\ output' = output
           /\ \A q \in Tasks : ~OtherFailed(q) => tasks'[q] = tasks[q] ]_vars

\* the second of three batches failed fatally and the run has ended: the
\* first batch is done and reported, the third was never dispatched
C4_Witness ==
    /\ exit = "exit1"
    /\ Len(tasks) = 2
    /\ tasks[1].pc = "done"
    /\ OtherFailed(2)
    /\ i < Len(discardItems)

\* ---------------------------------------------------------------------- C5
\* C5 (as claimed): a live run in which a request failed for a reason other
\* than "archive does not exist" ends with a non-zero exit status.
C5_FatalFailureExitsNonZero ==
    (exit # "running" /\ \E r \in Tasks : OtherFailed(r)) => exit = "exit1"

\* ---------------------------------------------------------------------- C6
\* C6: in dry-run mode the executor is never entered: no request is formed,
\* no slot is taken, no task is dispatched.
C6_DryRunNeverDeletes ==
    dryRun => /\ tasks = <<>>
              /\ ~InExecutor
              /\ args = <<>>
              /\ sem = SemSize

\* a dry run over a catalog with archives to discard has ended
C6_Witness ==
    /\ dryRun
    /\ exit = "exit0"
    /\ Len(discardItems) >= 2

\* ---------------------------------------------------------------------- C7
\* C7: no name is carried by two requests, no request carries a name twice,
\* and every name carried is a name of the discard sequence.
C7_NoNameSubmittedTwice ==
    /\ \A r, q \in Tasks :
          r # q => NamesOf(tasks[r].args) \cap NamesOf(tasks[q].args) = {}
    /\ \A r \in Tasks :
          /\ Cardinality(NamesOf(tasks[r].args)) = (Len(tasks[r].args) - 1) \div 2
          /\ NamesOf(tasks[r].args) \subseteq DiscardNames

\* two multi-name requests have been dispatched in one run
C7_Witness ==
    /\ Len(tasks) >= 2
    /\ MultiName(1)
    /\ tasks[2].started

\* ---------------------------------------------------------------------- C8
\* C8 (as claimed): in a run that has ended and in which no request failed
\* for another reason, a request that failed with "archive does not exist"
\* triggered no cancellation, its task is over (the slot released), and
\* every batch after it was dispatched and has resolved.
C8_GoneFailureRunCompletes ==
    (exit # "running" /\ \A q \in Tasks : ~OtherFailed(q)) =>
       \A r \in Tasks :
          GoneFailed(r) =>
             /\ ~cancelled
             /\ tasks[r].pc = "done"
             /\ ~(i < Len(discardItems))
             /\ \A q \in Tasks : q > r => tasks[q].pc = "done"

\* ---------------------------------------------------------------------- C9
\* C9: no record of the discard sequence has a timestamp after the
\* two-months-ago threshold, at any point of the selection or after it.
C9_RecentNeverDiscarded ==
    LET twoMonthsAgo == TwoMonthsAgo(now)
    IN  \A p \in 1..Len(discardItems) : ~(discardItems[p].Date > twoMonthsAgo)

\* the selection is over, it discarded something, and a recent record
\* directly follows a record that opened a period
C9_Witness ==
    /\ SelectionOver
    /\ discardItems # <<>>
    /\ \E p \in 2..Len(matchedItems) :
          /\ matchedItems[p].Date > TwoMonthsAgo(now)
          /\ Period(matchedItems[p - 1].Date, now) # 0

\* --------------------------------------------------------------------- C10
\* the matched records the selection keeps: not discarded, not already
\* removed
KeptItems ==
    LET gone == DiscardNames \cup alreadyDeletedMap
    IN  SelectSeq(matchedItems, LAMBDA it : it.Name \notin gone)

Spaced(seq, gap) ==
    \A p \in 1..(Len(seq) - 1) : seq[p + 1].Date - seq[p].Date >= gap

\* the kept records with a timestamp after lo and at or before hi
KeptBetween(lo, hi) ==
    SelectSeq(KeptItems, LAMBDA it : it.Date > lo /\ it.Date <= hi)

KeptUpTo(hi) == SelectSeq(KeptItems, LAMBDA it : it.Date <= hi)

NameSet(seq) == { seq[p].Name : p \in 1..Len(seq) }

\* the names the selection discards from the matched items of this run when
\* the already-deleted names are R
DiscardedWith(R) == NameSet(Selection(matchedItems, R, now))

\* the selection is about to start
SelectionStarts == pc = "outer" /\ currentIndex = 0 /\ exit = "running"

\* the selection has just ended
SelectionEnds == pc = "return" \/ (pc = "loop" /\ i = 0 /\ tasks = <<>>)

\* C12 (as claimed): for every archive x of the catalog, the selection with
\* the already-removed set R and the selection with R and x discard the
\* same archives other than x.
C12_AlreadyRemovedTransparent ==
    SelectionStarts =>
       LET base == DiscardedWith(alreadyDeletedMap)
       IN  \A x \in NameSet(matchedItems) :
              DiscardedWith(alreadyDeletedMap \cup {x}) \ {x} = base \ {x}

\* C12 (amended): the discard sequence of a run is Selection of its matched
\* items, its already-removed set and its clock; and for every archive x
\* that the selection with the already-removed set R discards, the
\* selection with R and x discards the same archives other than x.
C12_DiscardedRemovedTransparent ==
    /\ SelectionEnds =>
          discardItems = Selection(matchedItems, alreadyDeletedMap, now)
    /\ SelectionStarts =>
          LET base == DiscardedWith(alreadyDeletedMap)
          IN  \A x \in base :
                 DiscardedWith(alreadyDeletedMap \cup {x}) \ {x} = base \ {x}

\* the selection is about to start on a catalog of which it discards two
\* archives and skips an already-removed one
C12_Witness ==
    /\ SelectionStarts
    /\ Cardinality(DiscardedWith(alreadyDeletedMap)) >= 2
    /\ alreadyDeletedMap \cap NameSet(matchedItems) # {}

\* --------------------------------------------------------------------- C13
\* C13: no name of the already-removed set is ever in the discard sequence,
\* in the argument list being formed or in the argument list of a request.
C13_RemovedNeverDiscarded ==
    /\ DiscardNames \cap alreadyDeletedMap = {}
    /\ NamesOf(args) \cap alreadyDeletedMap = {}
    /\ \A r \in Tasks : NamesOf(tasks[r].args) \cap alreadyDeletedMap = {}

\* the selection passed over an already-removed archive inside a period,
\* discarded another archive, and the request for it was started
C13_Witness ==
    /\ \E nm \in alreadyDeletedMap : Lines("gone", <<nm>>) # {}
    /\ discardItems # <<>>
    /\ \E r \in Tasks : tasks[r].started

\* --------------------------------------------------------------------- C14
\* the catalog has a line without exactly one tab, a line whose timestamp
\* does not parse, or a line at which the read fails
Malformed(lines) ==
    \E k \in 1..Len(lines) :
       ~lines[k].reads \/ lines[k].tabs # 1 \/ ~lines[k].parses

\* C14: on a malformed catalog the parser returns no records and the run
\* never leaves the parse step: nothing is matched, selected, printed or
\* requested, and the only exit is the fatal one.
C14_MalformedCatalogAborts ==
    Malformed(input) =>
       /\ pc = "parse"
       /\ items = <<>> /\ matchedItems = <<>> /\ discardItems = <<>>
       /\ tasks = <<>> /\ output = <<>>
       /\ exit \in {"running", "exit1"}

\* the run has ended at the parse step on a catalog whose defect is not on
\* its first line
C14_Witness ==
    /\ exit = "exit1" /\ pc = "parse"
    /\ Len(input) >= 2
    /\ ~Malformed(SubSeq(input, 1, 1))
    /\ Malformed(input)

\* --------------------------------------------------------------------- C15
\* getArchiveItems has just returned its records
Parsed == pc = "match"

\* the record of line k
RecordOf(k) == [Name |-> input[k].name, Date |-> input[k].date]

\* items holds the records of the lines of input, each once
IsPermutation ==
    /\ Len(items) = Len(input)
    /\ \A k \in 1..Len(input) : \E p \in 1..Len(items) : items[p] = RecordOf(k)

NonDecreasing ==
    \A p \in 1..(Len(items) - 1) : items[p].Date <= items[p + 1].Date

\* the line of the catalog that names the archive nm
LineOf(nm) == CHOOSE k \in 1..Len(input) : input[k].name = nm

C16_RemovedNeverAnchor ==
    [][(/\ exit = "running" /\ pc = "outer"
        /\ currentIndex < Len(matchedItems)
        /\ Current.Name \in alreadyDeletedMap)
       => /\ output' = output \o Println("gone", <<Current.Name>>)
          /\ currentIndex' = currentIndex + 1
          /\ pc' = "outer"
          /\ periodEnd' = periodEnd
          /\ discardItems' = discardItems]_vars

\* --------------------------------------------------------------------- C17
\* C17: a period ends 7 or 30 days after the anchor that opened it and
\* stays as it is while the inner loop runs; a record enters the discard
\* sequence only in the inner loop and only with a timestamp strictly
\* before the end of the period; on a record that is not already removed
\* and whose timestamp is at or after the end of the period the inner loop
\* discards nothing and hands the same record to the outer loop.
C17_HalfOpenWindow ==
    [][/\ (pc = "outer" /\ pc' = "inner") =>
             periodEnd' - Current.Date \in {WeekWindow, MonthWindow}
       /\ (pc = "inner" /\ pc' = "inner") => periodEnd' = periodEnd
       /\ discardItems' # discardItems =>
             /\ pc = "inner"
             /\ discardItems' = Append(discardItems, Current)
             /\ Current.Date < periodEnd
       /\ (/\ exit = "running" /\ pc = "inner"
           /\ currentIndex < Len(matchedItems)
           /\ Current.Name \notin alreadyDeletedMap
           /\ Current.Date >= periodEnd)
          => /\ pc' = "outer"
             /\ currentIndex' = currentIndex
             /\ discardItems' = discardItems]_vars

\* the inner loop has discarded a record and has left the record dated
\* exactly at the end of the period to the outer loop
C17_Witness ==
    /\ pc = "outer" /\ exit = "running"
    /\ discardItems # <<>>
    /\ currentIndex < Len(matchedItems)
    /\ Current.Name \notin alreadyDeletedMap
    /\ Current.Date = periodEnd

\* --------------------------------------------------------------------- C18
\* the names of an argument list "-d", "-f", n1, "-f", n2, ... in order
ArgNames(a) == [p \in 1..((Len(a) - 1) \div 2) |-> a[2 * p + 1]]

DiscardNameSeq == [p \in 1..Len(discardItems) |-> discardItems[p].Name]

\* the names of the first r requests, in the order of dispatch
RECURSIVE Dispatched(_)
Dispatched(r) ==
    IF r = 0 THEN <<>> ELSE Dispatched(r - 1) \o ArgNames(tasks[r].args)

\* C18: every request carries at least one and at most 100 names; the names
\* of the requests dispatched so far, followed by those of the request
\* being handed over, are the first i names of the discard sequence in
\* order; and when the dispatch loop has ended they are the whole discard
\* sequence.
C18_BatchesPartitionDiscards ==
    /\ \A r \in Tasks :
          /\ Len(ArgNames(tasks[r].args)) >= 1
          /\ Len(ArgNames(tasks[r].args)) <= BatchSize
    /\ InExecutor =>
          Dispatched(Len(tasks))
             \o (IF pc \in {"acquire", "go"} THEN ArgNames(args) ELSE <<>>)
          = SubSeq(DiscardNameSeq, 1, i)
    /\ (pc = "loop" /\ exit = "exit0") =>
          Dispatched(Len(tasks)) = DiscardNameSeq

\* the dispatch loop has ended after two full requests and a third with
\* the one name left
C18_Witness ==
    /\ pc = "loop" /\ exit = "exit0" /\ multi
    /\ Len(tasks) = 3
    /\ Len(ArgNames(tasks[1].args)) = BatchSize
    /\ Len(ArgNames(tasks[3].args)) = 1

\* --------------------------------------------------------------------- C19
InSelection == exit = "running" /\ pc \in {"outer", "inner"}

\* what is left for the selection to do: two steps at most per record not
\* yet passed, one more while a period is open
Remaining(at, idx) == 2 * (Len(matchedItems) - idx) + (IF at = "inner" THEN 1 ELSE 0)

\* C19: the cursor never moves backwards and never passes the end of the
\* matched records by more than one; every iteration of the outer loop
\* moves it forward, and so does every iteration of the inner loop that
\* stays in the loop; every step of the selection reduces what is left to
\* do; and a dry run prints at most one line per record.
C19_CursorAdvances ==
    [][/\ currentIndex' >= currentIndex
       /\ currentIndex' <= Len(matchedItems) + 1
       /\ (InSelection /\ pc = "outer" /\ pc' \in {"outer", "inner"}) =>
             currentIndex' > currentIndex
       /\ (InSelection /\ pc = "inner" /\ pc' = "inner") =>
             currentIndex' = currentIndex + 1
       /\ (InSelection /\ pc' \in {"outer", "inner"}) =>
             Remaining(pc', currentIndex') < Remaining(pc, currentIndex)
       /\ InSelection =>
             \A p \in 1..Len(matchedItems) :
                Cardinality({ q \in 1..Len(output') :
                                output'[q].text = <<matchedItems[p].Name>> }) <= 1]_vars

\* a dry run has ended after the outer loop took two anchors and the inner
\* loop discarded a record
C19_Witness ==
    /\ pc = "return" /\ exit = "exit0"
    /\ currentIndex >= Len(matchedItems)
    /\ Cardinality({ q \in 1..Len(output) : output[q].kind = "keep1" }) >= 2
    /\ \E q \in 1..Len(output) : output[q].kind = "discard"

\* --------------------------------------------------------------------- C20
\* C20: the index into the discard sequence never moves backwards; every
\* iteration of the dispatch loop goes on to hand over a request, with at
\* least one name, and advances the index by the number of its names; no
\* iteration ends on an already-removed name, printing "gone" and leaving
\* the index where it was; and the loop ends only with the index at the
\* end of the discard sequence.
C20_DispatchAdvances ==
    [][/\ i' >= i
       /\ i' <= Len(discardItems)
       /\ (i' # i \/ args' # args) =>
             /\ pc = "loop" /\ pc' = "acquire"
             /\ i' > i
             /\ Len(ArgNames(args')) = i' - i
       /\ (InExecutor /\ output' # output) =>
             ~(/\ output'[Len(output')].kind = "gone"
               /\ Len(output'[Len(output')].text) = 1)
       /\ (pc = "loop" /\ exit = "running" /\ exit' = "exit0") =>
             i = Len(discardItems)]_vars

\* a single-name run on a catalog with an already-removed archive has
\* handed over two requests and its dispatch loop is at the end
C20_Witness ==
    /\ ~multi /\ pc = "loop"
    /\ Len(tasks) = 2
    /\ i = Len(discardItems)
    /\ alreadyDeletedMap \cap NameSet(matchedItems) # {}

====
